---- MODULE Spec2Model ----
(***************************************************************************)
(* Model of scripts/guidance_publisher.py: the ENU/NED frame conversion    *)
(* functions and the GuidancePublisher node.                               *)
(*                                                                         *)
(* Numbers.  The program computes with IEEE binary floating point          *)
(* (float64).  The model keeps that arithmetic at a reduced width: a       *)
(* number is an integer count of units of 2^-FracBits, and every           *)
(* arithmetic result is rounded to the nearest value with a MantBits-bit   *)
(* significand, ties to even (Rnd).  Values below 2^MantBits units are all *)
(* representable (gradual underflow).                                      *)
(***************************************************************************)
EXTENDS Integers, Sequences, FiniteSets

\* ------------------------------------------------------------ bounds
\* Width of the significand of the model's floating point numbers (53 in
\* float64).  With 7 bits the significand of pi is even, as it is in float64;
\* that parity decides the ties at 2*pi.
MantBits == 7
\* Number of fractional bits: 1.0 is 2^FracBits units.
FracBits == 8
\* The frame-conversion runs cover every float up to MaxTurns full turns + pi.
MaxTurns == 3
\* Number of pose samples delivered in one run.
MaxSamples == 2
\* Number of run-loop iterations that time out with no event pending.
MaxIdle == 1
\* Number of calls of calculate_trajectory made from outside the callback.
MaxCalls == 1

\* ------------------------------------------------------------ floating point
One == 2^FracBits

\* The None sentinel; a field that holds the float v is <<v>>.
None == <<>>

Some(v) == <<v>>

Val(f) == f[1]

Abs(v) == IF v < 0 THEN -v ELSE v

Sign(v) == IF v < 0 THEN -1 ELSE 1

Min(a, b) == IF a < b THEN a ELSE b

Max(a, b) == IF a > b THEN a ELSE b

RECURSIVE BitLen(_)
\* Number of bits of n >= 0: the least k with n < 2^k.
BitLen(n) == IF n = 0 THEN 0 ELSE 1 + BitLen(n \div 2)

\* Spacing of the floats around v (the unit in the last place).
Ulp(v) == IF Abs(v) < 2^MantBits THEN 1 ELSE 2^(BitLen(Abs(v)) - MantBits)

\* n / d (n >= 0, d > 0) rounded to the nearest integer, ties to even.
NearestInt(n, d) ==
    LET lo == n \div d
        r  == n - lo * d
    IN  IF 2 * r < d THEN lo
        ELSE IF 2 * r > d THEN lo + 1
        ELSE IF lo % 2 = 0 THEN lo ELSE lo + 1

\* n / d (d > 0) in units, rounded to nearest, ties to even.
RoundInt(n, d) == Sign(n) * NearestInt(Abs(n), d)

\* Round to the nearest float, ties to even: the rounding every float64
\* operation ends with.
Rnd(v) == Sign(v) * NearestInt(Abs(v), Ulp(v)) * Ulp(v)

\* The float nearest to n / d.
RndDiv(n, d) == Rnd(RoundInt(n, d))

\* The float of the decimal literal n.
Float(n) == Rnd(n * One)

\* pi in units, before rounding to a float (355/113 = 3.1415929...).
PiUnits == RoundInt(355 * One, 113)

\* np.pi: the float nearest to pi.
PI == Rnd(PiUnits)

\* 2 * np.pi
TWO_PI == Rnd(2 * PI)

\* np.pi/2
HALF_PI == RndDiv(PI, 2)

\* Faulty variant of FloatMod: the C remainder, which keeps the sign of a.
FloatModTruncating(a, b) == IF a >= 0 THEN a % b ELSE -((-a) % b)

\* The float operator a % b of Python/numpy for b > 0: C fmod (exact, sign of
\* a), then b is added to a negative remainder, a float addition that rounds.
FloatMod(a, b) ==
    LET m == IF a >= 0 THEN a % b ELSE -((-a) % b)
    IN  IF m < 0 THEN Rnd(m + b) ELSE m

\* ------------------------------------------------------------ frame conversion
wrap_to_pi(angle) == Rnd(FloatMod(Rnd(angle + PI), TWO_PI) - PI)

\* Faulty variant of yaw_enu_to_ned: the operands of the subtraction swapped.
yaw_enu_to_ned_swapped(yaw_enu) == wrap_to_pi(Rnd(yaw_enu - HALF_PI))

yaw_enu_to_ned(yaw_enu) == wrap_to_pi(Rnd(HALF_PI - yaw_enu))

get_relative_ned_yaw_cmd(current_ned_yaw, inert_ned_yaw_cmd) ==
    wrap_to_pi(Rnd(inert_ned_yaw_cmd - current_ned_yaw))

\* ------------------------------------------------------------ numpy
\* atan(lo/hi) for 0 <= lo <= hi, hi > 0, as a numerator over 4096 units:
\* (pi/4) r + 0.273 r (1 - r), exact at r = 0 and r = 1 and within a quarter
\* of a degree between, with r = lo/hi taken to 10 bits.
AtanNum(lo, hi) ==
    LET r == RoundInt(lo * 1024, hi)
        t == RoundInt(r * (1024 - r), 1024)
    IN  PiUnits * r + RoundInt(273 * One * 4 * t, 1000)

\* np.arctan2(dy, dx): the float nearest to the angle of (dx, dy), in
\* (-pi, pi]; 0 at the origin.
arctan2(dy, dx) ==
    LET ax    == Abs(dx)
        ay    == Abs(dy)
        first == IF ay <= ax THEN AtanNum(ay, ax)
                 ELSE 2048 * PiUnits - AtanNum(ax, ay)
        num   == IF dx >= 0 THEN first ELSE 4096 * PiUnits - first
    IN  IF dx = 0 /\ dy = 0 THEN 0
        ELSE RndDiv((IF dy < 0 THEN -1 ELSE 1) * num, 4096)

\* np.deg2rad(d) = d * pi / 180
deg2rad(d) == RndDiv(d * PI, 180)

\* np.clip(v, lo, hi)
clip(v, lo, hi) == Min(Max(v, lo), hi)

RECURSIVE SqrtIter(_, _)
\* Newton's iteration for the integer square root of n from the guess x.
SqrtIter(n, x) ==
    LET y == (x + n \div x) \div 2
    IN  IF y >= x THEN x ELSE SqrtIter(n, y)

\* np.sqrt(vx**2 + vy**2 + vz**2) of floats given in units.
norm(vx, vy, vz) ==
    LET n == vx * vx + vy * vy + vz * vz
        f == IF n = 0 THEN 0 ELSE SqrtIter(n, n)
    IN  Rnd(IF n - f * f > f THEN f + 1 ELSE f)

\* ------------------------------------------------------------ GuidancePublisher
\* rot_utils.euler_from_quaternion(qx, qy, qz, qw): an orientation is
\* identified by the Euler angles (ENU, radians) the utility extracts from it.
euler_from_quaternion(q) == <<q.roll, q.pitch, q.yaw>>

\* self.target
InitTarget == <<Float(-170), Float(-170), Float(50)>>

\* self.current_state after __init__: x, y, z, phi, theta, psi, airspeed.
InitState == <<None, None, None, None, None, None, None>>

\* Faulty variant of UpdatedState: airspeed is not recomputed.
UpdatedStateNoSpeed(cs, msg) ==
    LET e == euler_from_quaternion(msg.q)
    IN  <<Some(msg.x), Some(msg.y), Some(msg.z),
          Some(e[1]), Some(e[2]), Some(e[3]), cs[7]>>

\* Faulty variant of UpdatedState: the yaw is only set when it is still None.
UpdatedStateStaleYaw(cs, msg) ==
    LET e == euler_from_quaternion(msg.q)
    IN  <<Some(msg.x), Some(msg.y), Some(msg.z),
          Some(e[1]), Some(e[2]), IF cs[6] = None THEN Some(e[3]) ELSE cs[6],
          Some(norm(msg.vx, msg.vy, msg.vz))>>

\* current_state as mavros_state_callback leaves it (lines 112-132).
UpdatedState(cs, msg) ==
    LET e == euler_from_quaternion(msg.q)
    IN  <<Some(msg.x), Some(msg.y), Some(msg.z),
          Some(e[1]), Some(e[2]), Some(e[3]),
          Some(norm(msg.vx, msg.vy, msg.vz))>>

\* Faulty variant of roll_command: the clip is missing.
roll_command_unclipped(rel_yaw_cmd) == RndDiv(rel_yaw_cmd, 2)

\* roll_cmd: kp * rel_yaw_cmd with kp = 0.5, clipped to +-45 degrees.
roll_command(rel_yaw_cmd) ==
    clip(RndDiv(rel_yaw_cmd, 2), -deg2rad(45), deg2rad(45))

\* Faulty variant of pitch_command: the clip is missing.
pitch_command_unclipped(dz) == RndDiv(dz, 4)

\* Faulty variant of pitch_command: the sign of the vertical error is inverted.
pitch_command_inverted(dz) == clip(RndDiv(-dz, 4), -deg2rad(15), deg2rad(10))

\* pitch_cmd: kp_pitch * dz with kp_pitch = 0.25, clipped to [-15, 10] degrees.
pitch_command(dz) == clip(RndDiv(dz, 4), -deg2rad(15), deg2rad(10))

\* Faulty variant of relative_yaw: the yaw is taken as already NED.
relative_yaw_unconverted(cs, tgt) ==
    LET dx == Rnd(tgt[1] - Val(cs[1]))
        dy == Rnd(tgt[2] - Val(cs[2]))
    IN  get_relative_ned_yaw_cmd(Val(cs[6]), yaw_enu_to_ned(arctan2(dy, dx)))

\* rel_yaw_cmd of calculate_trajectory (lines 143-153).  dist (line 146) is
\* only printed and is left out.
relative_yaw(cs, tgt) ==
    LET dx            == Rnd(tgt[1] - Val(cs[1]))
        dy            == Rnd(tgt[2] - Val(cs[2]))
        enu_yaw_rad   == arctan2(dy, dx)
        ned_yaw_rad   == yaw_enu_to_ned(enu_yaw_rad)
        ned_yaw_state == yaw_enu_to_ned(Val(cs[6]))
    IN  get_relative_ned_yaw_cmd(ned_yaw_state, ned_yaw_rad)

\* The CtlTraj message calculate_trajectory builds (lines 155-169).
CtlTraj(cs, tgt) ==
    LET dz          == Rnd(tgt[3] - Val(cs[3]))
        rel_yaw_cmd == relative_yaw(cs, tgt)
        roll_cmd    == roll_command(rel_yaw_cmd)
        pitch_cmd   == pitch_command(dz)
        thrust_cmd  == RndDiv(One, 2)
    IN  [roll   |-> <<roll_cmd, roll_cmd>>,
         pitch  |-> <<pitch_cmd, pitch_cmd>>,
         yaw    |-> <<rel_yaw_cmd, rel_yaw_cmd>>,
         idx    |-> 0,
         thrust |-> <<thrust_cmd, thrust_cmd, thrust_cmd>>]

\* Faulty variant of calculate_trajectory: without a pose an empty message
\* is published instead of returning.
calculate_trajectory_empty(cs, tgt) ==
    IF cs[1] = None
    THEN Some([roll |-> <<>>, pitch |-> <<>>, yaw |-> <<>>, idx |-> 0,
               thrust |-> <<>>])
    ELSE Some(CtlTraj(cs, tgt))

\* Faulty variant of calculate_trajectory: the guard tests the truth value of
\* x ("if not self.current_state[0]"), so x = 0.0 also returns early.
calculate_trajectory_falsy(cs, tgt) ==
    IF cs[1] = None \/ cs[1] = Some(0) THEN None
    ELSE Some(CtlTraj(cs, tgt))

\* calculate_trajectory: what it hands to publish_trajectory, None when it
\* returns early.  Arithmetic on a None field raises TypeError before the
\* message is built, so nothing is published then either.
calculate_trajectory(cs, tgt) ==
    IF cs[1] = None THEN None
    ELSE IF cs[2] = None \/ cs[3] = None \/ cs[6] = None THEN None
    ELSE Some(CtlTraj(cs, tgt))

\* ------------------------------------------------------------ state
VARIABLES
    target,          \* self.target
    current_state,   \* self.current_state
    published,       \* number of messages published on 'trajectory'
    last_trajectory, \* the last message published on 'trajectory', or None
    delivered,       \* number of pose samples handed to mavros_state_callback
    last_msg,        \* the last pose sample delivered, or None
    idle_spins,      \* run-loop iterations that timed out with no event
    direct_calls,    \* calls of calculate_trajectory from outside the callback
    ok,              \* rclpy.ok(): the run loop of main has not been interrupted
    theta,           \* frame conversion: the angle the functions are applied to
    other,           \* frame conversion: the current NED yaw of the relative command
    wrapped,         \* wrap_to_pi(theta), or None before the call
    twice,           \* yaw_enu_to_ned(yaw_enu_to_ned(theta)), or None
    rel              \* get_relative_ned_yaw_cmd(other, theta), or None

node_vars == <<target, current_state, published, last_trajectory, delivered,
               last_msg, idle_spins, direct_calls, ok>>

frame_vars == <<theta, other, wrapped, twice, rel>>

vars == <<target, current_state, published, last_trajectory, delivered,
          last_msg, idle_spins, direct_calls, ok, theta, other, wrapped,
          twice, rel>>

\* ------------------------------------------------------------ inputs
\* Positions (x, y) of the pose samples, in metres: the origin, the target,
\* and points west, south, north-east and south-west of the target.
XYs == {<<0, 0>>, <<-170, -170>>, <<-340, -170>>, <<-170, 0>>, <<30, -70>>,
        <<-340, -340>>}

\* Altitudes of the pose samples, in 1/8 metres: 0, just below, at and just
\* above the target altitude, and far above it.
Zs == {0, 399, 400, 408, 960}

\* Yaw angles euler_from_quaternion returns, an atan2 value in [-pi, pi].
Yaws == {0, HALF_PI, -PI, PI, Rnd(-HALF_PI - Ulp(HALF_PI)), Float(1)}

\* Linear velocities, in metres per second.
Velocities == {<<0, 0, 0>>, <<3, 4, 0>>}

\* The Odometry message at position (p[1], p[2]) metres and altitude h/8
\* metres, with yaw w and linear velocity v.
Odometry(p, h, w, v) ==
    [x |-> Float(p[1]), y |-> Float(p[2]), z |-> RndDiv(h * One, 8),
     q |-> [roll |-> 0, pitch |-> 0, yaw |-> w],
     vx |-> Float(v[1]), vy |-> Float(v[2]), vz |-> Float(v[3])]

\* The Odometry messages the subscription can deliver: every position with
\* every yaw on the ground at rest, and every altitude with every velocity
\* at the origin heading east.
PoseSamples ==
    {Odometry(p, 0, w, <<0, 0, 0>>) : p \in XYs, w \in Yaws}
    \cup {Odometry(<<0, 0>>, h, 0, v) : h \in Zs, v \in Velocities}

\* Every float of magnitude at most MaxTurns full turns plus pi.
FrameAngles == {Rnd(a) : a \in -(MaxTurns * TWO_PI + PI)..(MaxTurns * TWO_PI + PI)}

\* Current NED yaws the relative command is computed against.
OtherAngles == {0, HALF_PI, -HALF_PI, PI}

\* ------------------------------------------------------------ specification
\* GuidancePublisher.__init__ and the entry of main.
InitNode ==
    /\ target = InitTarget
    /\ current_state = InitState
    /\ published = 0
    /\ last_trajectory = None
    /\ delivered = 0
    /\ last_msg = None
    /\ idle_spins = 0
    /\ direct_calls = 0
    /\ ok = TRUE

InitFrame ==
    /\ wrapped = None
    /\ twice = None
    /\ rel = None

Init ==
    /\ InitNode
    /\ InitFrame
    /\ theta = 0
    /\ other = 0

\* publish_trajectory(trajectory), for what calculate_trajectory hands over.
publish_trajectory(out) ==
    IF out = None
    THEN UNCHANGED <<published, last_trajectory>>
    ELSE /\ published' = published + 1
         /\ last_trajectory' = out

\* mavros_state_callback(msg): the state is overwritten, then the command is
\* computed from it and published.
mavros_state_callback(msg) ==
    LET cs == UpdatedState(current_state, msg)
    IN  /\ current_state' = cs
        /\ publish_trajectory(calculate_trajectory(cs, target))
        /\ UNCHANGED target

\* One iteration of the loop of main in which spin_once finds a pose sample
\* pending and runs the subscription callback on it.
SpinOnceCallback ==
    /\ ok
    /\ delivered < MaxSamples
    /\ \E msg \in PoseSamples :
          /\ mavros_state_callback(msg)
          /\ last_msg' = Some(msg)
    /\ delivered' = delivered + 1
    /\ UNCHANGED <<idle_spins, direct_calls, ok, frame_vars>>

\* One iteration of the loop of main in which spin_once times out after
\* 0.05 s with no event pending.
SpinOnceTimeout ==
    /\ ok
    /\ idle_spins < MaxIdle
    /\ idle_spins' = idle_spins + 1
    /\ UNCHANGED <<target, current_state, published, last_trajectory,
                   delivered, last_msg, direct_calls, ok, frame_vars>>

\* KeyboardInterrupt: the loop is left, the node destroyed, rclpy shut down.
KeyboardInterrupt ==
    /\ ok
    /\ ok' = FALSE
    /\ UNCHANGED <<target, current_state, published, last_trajectory,
                   delivered, last_msg, idle_spins, direct_calls, frame_vars>>

\* calculate_trajectory() called on the node directly, not by the callback.
CalculateTrajectoryCall ==
    /\ ok
    /\ direct_calls < MaxCalls
    /\ direct_calls' = direct_calls + 1
    /\ publish_trajectory(calculate_trajectory(current_state, target))
    /\ UNCHANGED <<target, current_state, delivered, last_msg, idle_spins,
                   ok, frame_vars>>

\* The node as main runs it.
Next ==
    \/ SpinOnceCallback
    \/ SpinOnceTimeout
    \/ KeyboardInterrupt

Spec == Init /\ [][Next]_vars

\* The node with calculate_trajectory also called by its user.
NextApi ==
    \/ SpinOnceCallback
    \/ SpinOnceTimeout
    \/ KeyboardInterrupt
    \/ CalculateTrajectoryCall

SpecApi == Init /\ [][NextApi]_vars

\* The frame conversion functions applied to every angle of FrameAngles.
InitFrameRun ==
    /\ InitNode
    /\ InitFrame
    /\ theta \in FrameAngles
    /\ other \in OtherAngles

ApplyWrapToPi ==
    /\ wrapped = None
    /\ wrapped' = Some(wrap_to_pi(theta))
    /\ UNCHANGED <<node_vars, theta, other, twice, rel>>

ApplyYawEnuToNedTwice ==
    /\ twice = None
    /\ twice' = Some(yaw_enu_to_ned(yaw_enu_to_ned(theta)))
    /\ UNCHANGED <<node_vars, theta, other, wrapped, rel>>

ApplyRelativeYawCmd ==
    /\ rel = None
    /\ rel' = Some(get_relative_ned_yaw_cmd(other, theta))
    /\ UNCHANGED <<node_vars, theta, other, wrapped, twice>>

NextFrame ==
    \/ ApplyWrapToPi
    \/ ApplyYawEnuToNedTwice
    \/ ApplyRelativeYawCmd

SpecFrame == InitFrameRun /\ [][NextFrame]_vars

\* ------------------------------------------------------------ properties
\* The fields of the last published message and of the last pose sample.
Cmd == Val(last_trajectory)

Msg == Val(last_msg)

Published == last_trajectory # None

\* Rounding error allowed on an angle computed from v: one unit in the last
\* place of 2*pi plus one of v.
Tol(v) == Ulp(TWO_PI) + Ulp(v)

\* a and b are congruent modulo 2*pi to within tol.
Congruent(a, b, tol) ==
    \E k \in -(MaxTurns + 2)..(MaxTurns + 2) : Abs(a - b - k * TWO_PI) <= tol

\* C1: while no pose sample has been processed (current_state[0] is None)
\* nothing has been published on 'trajectory', whatever number of calls of
\* calculate_trajectory and of idle run-loop iterations has been made.
C1_NoPublishBeforePose ==
    current_state[1] = None => published = 0 /\ last_trajectory = None

C1_Witness ==
    /\ current_state[1] = None
    /\ direct_calls > 0
    /\ idle_spins > 0
    /\ published = 0

\* C2: every delivered pose sample publishes exactly one command and leaves
\* the controller Tracking; after n samples exactly n commands have been
\* published; Tracking is never left.
C2_OneCommandPerSample ==
    /\ [](published = delivered)
    /\ [](delivered > 0 <=> current_state[1] # None)
    /\ [][/\ delivered' = delivered + 1 =>
               published' = published + 1 /\ current_state'[1] # None
          /\ current_state[1] # None => current_state'[1] # None]_vars

C2_Witness ==
    /\ delivered >= 2
    /\ published = delivered
    /\ current_state[1] = Some(0)

\* C3: whenever a command has been published, and whenever the guard of
\* calculate_trajectory lets a call through, all seven fields of current_state
\* are set.
C3_FullyPopulated ==
    (published > 0 \/ current_state[1] # None) =>
        \A i \in 1..7 : current_state[i] # None

C3_Witness ==
    /\ published > delivered
    /\ direct_calls > 0
    /\ \A i \in 1..7 : current_state[i] # None

\* C4: the roll of every published command is within +-45 degrees, and both
\* entries of the roll array hold it.
C4_RollClamped ==
    Published =>
        /\ Len(Cmd.roll) = 2
        /\ Cmd.roll[1] = Cmd.roll[2]
        /\ Abs(Cmd.roll[1]) <= deg2rad(45)

\* A heading error beyond 90 degrees, whose half is clipped to 45 degrees.
C4_Witness ==
    /\ Published
    /\ Cmd.yaw[1] > HALF_PI
    /\ Cmd.roll[1] = deg2rad(45)

\* C5: the pitch of every published command is within [-15, +10] degrees, and
\* both entries of the pitch array hold it.
C5_PitchClamped ==
    Published =>
        /\ Len(Cmd.pitch) = 2
        /\ Cmd.pitch[1] = Cmd.pitch[2]
        /\ -deg2rad(15) <= Cmd.pitch[1]
        /\ Cmd.pitch[1] <= deg2rad(10)

\* A vehicle far above the target, whose pitch is clipped to -15 degrees.
C5_Witness ==
    /\ Published
    /\ Msg.z > target[3] + Float(1)
    /\ Cmd.pitch[1] = -deg2rad(15)

\* The case of C6: the vehicle at altitude 0 under the target at 50, dz = 50.
C6_Case == Published /\ target[3] = Float(50) /\ Msg.z = 0

\* C6 as stated: with dz = 50 the pitch command is the lower bound, -15
\* degrees.
C6_Original == C6_Case => Cmd.pitch[1] = -deg2rad(15)

\* C6, amended: with dz = 50 the pitch command saturates at the upper bound,
\* +10 degrees.
C6_PitchSaturatesHigh == C6_Case => Cmd.pitch[1] = deg2rad(10)

C6_Witness == C6_Case /\ Cmd.pitch = <<deg2rad(10), deg2rad(10)>>

\* The case of C7: the vehicle at the origin with ENU yaw 0, the target at
\* (-170, -170, 50).
C7_Case ==
    /\ Published
    /\ target = <<Float(-170), Float(-170), Float(50)>>
    /\ Msg.x = 0 /\ Msg.y = 0 /\ Msg.z = 0
    /\ Msg.q.yaw = 0

\* C7 as stated: the bearing is -3*pi/4 and the relative yaw command has
\* magnitude pi/4 (to within rounding).
C7_Original ==
    C7_Case =>
        /\ arctan2(target[2], target[1]) = -RndDiv(3 * PI, 4)
        /\ Abs(Abs(Cmd.yaw[1]) - RndDiv(PI, 4)) <= Tol(PI)

\* C7, amended: the bearing is -3*pi/4 and the relative yaw command is
\* +3*pi/4 (to within rounding).
C7_RelativeYaw ==
    C7_Case =>
        /\ arctan2(target[2], target[1]) = -RndDiv(3 * PI, 4)
        /\ Abs(Cmd.yaw[1] - RndDiv(3 * PI, 4)) <= Tol(PI)

C7_Witness == C7_Case /\ Cmd.yaw[1] > HALF_PI

\* C8 as stated: wrap_to_pi(x) is in [-pi, pi), never +pi, and congruent to x
\* modulo 2*pi (to within rounding); every relative yaw command is in
\* [-pi, pi).
C8_Original ==
    /\ wrapped # None =>
          /\ -PI <= Val(wrapped) /\ Val(wrapped) < PI
          /\ Congruent(Val(wrapped), theta, Tol(theta))
    /\ rel # None => -PI <= Val(rel) /\ Val(rel) < PI

\* C8, amended: wrap_to_pi(x) is in the closed interval [-pi, pi] and
\* congruent to x modulo 2*pi to within rounding; every relative yaw command
\* is in [-pi, pi].
C8_WrapRange ==
    /\ wrapped # None =>
          /\ -PI <= Val(wrapped) /\ Val(wrapped) <= PI
          /\ Congruent(Val(wrapped), theta, Tol(theta))
    /\ rel # None => -PI <= Val(rel) /\ Val(rel) <= PI

\* A negative angle more than a full turn away, wrapped.
C8_Witness ==
    /\ wrapped # None
    /\ theta < -TWO_PI - PI
    /\ Val(wrapped) > 0
    /\ rel # None

\* C9 as stated: wrap_to_pi(yaw_enu_to_ned(yaw_enu_to_ned(theta)) - theta) is
\* exactly 0, and for theta in [-pi, pi) the double conversion returns theta.
C9_Original ==
    twice # None =>
        /\ wrap_to_pi(Rnd(Val(twice) - theta)) = 0
        /\ (-PI <= theta /\ theta < PI) => Val(twice) = theta

\* C9, amended: wrap_to_pi(yaw_enu_to_ned(yaw_enu_to_ned(theta)) - theta) is 0
\* to within rounding, and for theta in [-pi, pi) the double conversion
\* returns theta modulo 2*pi to within rounding.
C9_SelfInverse ==
    twice # None =>
        /\ Abs(wrap_to_pi(Rnd(Val(twice) - theta))) <= 2 * Tol(theta)
        /\ (-PI <= theta /\ theta < PI) =>
              Congruent(Val(twice), theta, 2 * Tol(theta))

\* An angle outside [-pi, pi), converted twice.
C9_Witness ==
    /\ twice # None
    /\ theta > TWO_PI
    /\ Val(twice) < PI

\* C10: the last published command is the one a node with no history
\* publishes for the last pose sample alone; target is never modified;
\* thrust is 0.5 three times and idx is 0.
C10_LastSampleOnly ==
    /\ target = InitTarget
    /\ Published =>
          /\ last_msg # None
          /\ last_trajectory =
                 calculate_trajectory(UpdatedState(InitState, Msg), InitTarget)
          /\ Cmd.thrust = <<RndDiv(One, 2), RndDiv(One, 2), RndDiv(One, 2)>>
          /\ Cmd.idx = 0

\* A second sample whose yaw differs from the one a first sample left.
C10_Witness ==
    /\ delivered >= 2
    /\ Published
    /\ Msg.q.yaw = PI
    /\ current_state[6] = Some(PI)

====
